---- MODULE Spec2Model ----
(***************************************************************************)
(* A model of GoToAnimator (src/src/util/GoToAnimator.js): the animator    *)
(* that moves a navigator's camera to a position with timer-driven ticks.  *)
(*                                                                         *)
(* Numbers.  JavaScript Numbers are IEEE 754 doubles: every operation      *)
(* rounds to the nearest double.  Times (Date.now()) are integers,         *)
(* milliseconds; every read of the clock is a value of its own, not less   *)
(* than the one read before.                                               *)
(*                                                                         *)
(* Geometry.  The camera moves along the equator; a location is its        *)
(* longitude, an angle in radians, and great-circle distances are angles   *)
(* in radians, as Location.greatCircleDistance gives them.  Altitudes and  *)
(* the width of the view are metres; the source divides them by            *)
(* globe.equatorialRadius where it compares them with angles.              *)
(***************************************************************************)
EXTENDS Integers, Sequences, FiniteSets, TLC

VARIABLES
    wwd,                    \* the constructor's argument: "null", or a WorldWindow ("wwd", "small")
    camera,                 \* the navigator's camera (wwd.navigator), [longitude, altitude]
    now,                    \* Date.now()
    redrawn,                \* Date.now() when wwd.redraw() was last called, 0 if it never was
    timer,                  \* timer[k]: due time of the pending timerCallback created by the k-th goTo, 0 if none
    completionCallback,     \* this.completionCallback: [fn, call]; fn = "none" when null/undefined
    cancelled,              \* this.cancelled
    targetPosition,         \* this.targetPosition
    startPosition,          \* this.startPosition
    startTime,              \* this.startTime
    maxAltitude,            \* this.maxAltitude
    maxAltitudeReachedTime, \* this.maxAltitudeReachedTime; 0 stands for null (both are falsy)
    panVelocity,            \* this.panVelocity
    rangeVelocity,          \* this.rangeVelocity
    calls,                  \* number of goTo calls that passed the argument check
    passed,                 \* passed[k]: the callback the k-th such call was given
    requested,              \* the position argument of the last such call
    invoked,                \* invoked[k]: how often the callback passed to the k-th call was invoked
    thrown,                 \* what the last operation threw: "none", "constructor", "goTo", "update"
    cancelledRuns,          \* the calls during whose run cancel() was called
    lastUpdate,             \* what update() reported to the last timerCallback of the current run that ran it
    firstDone,              \* the times at which the sub-motions of the current run first reported done to a timerCallback
    direct,                 \* the calls of update, updateRange and updateLocation made by others than timerCallback: their number, and what the last returned
    slow                    \* the number of calls during which the clock moved on between two reads

fields == <<completionCallback, cancelled, targetPosition, startPosition, startTime,
            maxAltitude, maxAltitudeReachedTime, panVelocity, rangeVelocity>>

history == <<calls, passed, requested, invoked, thrown, cancelledRuns, lastUpdate, firstDone,
             direct, slow>>

vars == <<wwd, camera, now, timer, redrawn, fields, history>>

----------------------------------------------------------------------------
\* Bounds of the model.

\* goTo calls (that pass the argument check) per behaviour.
MaxCalls == 2

\* Date.now() at construction.
ClockOrigin == 1000

\* How late, in ms, a timer that does not fire on time fires.
LateBy == 4000

\* Calls of update, updateRange and updateLocation by others than timerCallback, per behaviour.
MaxDirect == 1

\* Calls during which the clock moves on between two reads, per behaviour.
MaxSlow == 1

----------------------------------------------------------------------------
\* Program constants.

\* this.animationFrequency
animationFrequency == 20

\* this.travelTime
travelTime == 3000

\* the pan sub-motion's cap on elapsed time, ms
MaxPanTime == 4000

\* Altitude of the point the navigator looks at (terrain under the camera), metres.
LookAtAltitude == 20

\* The width of the view at distance d is d * FrustumNum / FrustumDen metres
\* (pixelSizeAtDistance(d) * canvas.clientWidth, about 2 tan(45 deg / 2) d).
FrustumNum == 5

FrustumDen == 6

\* A canvas scaled down on the page shows SmallCanvas viewport pixels per client pixel.
SmallCanvas == 5

\* globe.equatorialRadius, metres (WGS 84)
equatorialRadius == 6378137

----------------------------------------------------------------------------
\* Number arithmetic: JavaScript Numbers are IEEE 754 doubles, and every
\* operation rounds its exact result to the nearest double, ties to even.  A
\* Number is [s, m, e], the value s * m * 2^e: s is the sign (0 for zero), m the
\* odd mantissa of at most Precision bits, a natural number written as its digits
\* to the base LimbBase, lowest first.  NaN is a value of its own.  (No
\* infinities, subnormals or signed zero: the animator divides by no zero and
\* its numbers stay far from the ends of the exponent range.)

Precision == 53

LimbBits == 15

LimbBase == 32768

Abs(i) == IF i < 0 THEN -i ELSE i

\* 2^0 .. 2^LimbBits
PowersOf2 ==
    <<1, 2, 4, 8, 16, 32, 64, 128, 256, 512, 1024, 2048, 4096, 8192, 16384, 32768>>

Pow2(n) == PowersOf2[n + 1]

RECURSIVE IntBitLen(_)
IntBitLen(n) == IF n = 0 THEN 0 ELSE 1 + IntBitLen(n \div 2)

RECURSIVE IntTrailingZeros(_)
IntTrailingZeros(n) == IF n % 2 = 1 THEN 0 ELSE 1 + IntTrailingZeros(n \div 2)

\* Natural numbers of any size, as digit sequences without leading zero digits.

Limb(a, i) == IF i >= 1 /\ i <= Len(a) THEN a[i] ELSE 0

RECURSIVE BNorm(_)
BNorm(a) ==
    IF a = <<>> THEN a
    ELSE IF a[Len(a)] = 0 THEN BNorm(SubSeq(a, 1, Len(a) - 1))
    ELSE a

RECURSIVE BFromInt(_)
BFromInt(n) == IF n = 0 THEN <<>> ELSE <<n % LimbBase>> \o BFromInt(n \div LimbBase)

\* The digits of the number whose digits-with-carries are a, c being carried in.
RECURSIVE BCarry(_, _)
BCarry(a, c) ==
    IF a = <<>> THEN BFromInt(c)
    ELSE <<(a[1] + c) % LimbBase>> \o BCarry(Tail(a), (a[1] + c) \div LimbBase)

BAdd(a, b) ==
    IF a = <<>> THEN b
    ELSE IF b = <<>> THEN a
    ELSE BCarry([i \in 1 .. (IF Len(a) < Len(b) THEN Len(b) ELSE Len(a)) |->
                    Limb(a, i) + Limb(b, i)], 0)

\* a - b, for a >= b
BSub(a, b) == BNorm(BCarry([i \in 1 .. Len(a) |-> a[i] - Limb(b, i)], 0))

\* a * k, for a digit k
BMulSmall(a, k) == BNorm(BCarry([i \in 1 .. Len(a) |-> a[i] * k], 0))

\* a * LimbBase^q
BShlLimbs(a, q) == IF a = <<>> THEN a ELSE [i \in 1 .. q |-> 0] \o a

RECURSIVE BMul(_, _)
BMul(a, b) ==
    IF a = <<>> \/ b = <<>> THEN <<>>
    ELSE BAdd(BMulSmall(a, b[1]), BShlLimbs(BMul(a, Tail(b)), 1))

\* a * 2^n
BShl(a, n) ==
    BShlLimbs(IF n % LimbBits = 0 THEN a ELSE BMulSmall(a, Pow2(n % LimbBits)),
              n \div LimbBits)

\* a \div 2^n
BShr(a, n) ==
    LET lo == Pow2(n % LimbBits)
        hi == Pow2(LimbBits - (n % LimbBits))
        b  == IF n \div LimbBits >= Len(a) THEN <<>>
              ELSE SubSeq(a, n \div LimbBits + 1, Len(a))
    IN  IF n = 0 THEN a
        ELSE BNorm(SubSeq([i \in 1 .. Len(b) |->
                              (b[i] \div lo) + (Limb(b, i + 1) % lo) * hi], 1, Len(b)))

BBitLen(a) ==
    IF a = <<>> THEN 0 ELSE LimbBits * (Len(a) - 1) + IntBitLen(a[Len(a)])

\* bit i of a, bit 0 being the lowest
BBit(a, i) == (Limb(a, i \div LimbBits + 1) \div Pow2(i % LimbBits)) % 2

\* whether the n lowest bits of a are all 0
BLowZero(a, n) ==
    /\ \A i \in 1 .. n \div LimbBits : Limb(a, i) = 0
    /\ Limb(a, n \div LimbBits + 1) % Pow2(n % LimbBits) = 0

RECURSIVE BTrailingZeros(_)
BTrailingZeros(a) ==
    IF a[1] = 0 THEN LimbBits + BTrailingZeros(Tail(a)) ELSE IntTrailingZeros(a[1])

RECURSIVE BCmpFrom(_, _, _)
BCmpFrom(a, b, i) ==
    IF i = 0 THEN 0
    ELSE IF a[i] < b[i] THEN -1
    ELSE IF a[i] > b[i] THEN 1
    ELSE BCmpFrom(a, b, i - 1)

\* -1, 0, 1 as a < b, a = b, a > b
BCmp(a, b) ==
    IF Len(a) < Len(b) THEN -1
    ELSE IF Len(a) > Len(b) THEN 1
    ELSE BCmpFrom(a, b, Len(a))

\* Short division by a digit d, from digit i of n down: quotient q and remainder r so far.
RECURSIVE BDivDigit(_, _, _, _, _)
BDivDigit(n, d, i, q, r) ==
    IF i = 0 THEN [q |-> BNorm(q), r |-> BFromInt(r)]
    ELSE BDivDigit(n, d, i - 1, <<(r * LimbBase + n[i]) \div d>> \o q,
                   (r * LimbBase + n[i]) % d)

\* Long division by a divisor d whose highest digit is at least LimbBase / 2,
\* digit by digit from digit i of n down: quotient q and remainder r so far.
RECURSIVE BDivFrom(_, _, _, _, _)
RECURSIVE BDivTake(_, _, _, _, _, _)

\* The quotient digit qhat is right when its product p with d fits in the
\* remainder r2, and is tried one smaller when it does not.
BDivCheck(n, d, i, q, r2, qhat, p) ==
    IF BCmp(p, r2) <= 0
    THEN BDivFrom(n, d, i - 1, <<qhat>> \o q, BSub(r2, p))
    ELSE BDivTake(n, d, i, q, r2, qhat - 1)

BDivTake(n, d, i, q, r2, qhat) == BDivCheck(n, d, i, q, r2, qhat, BMulSmall(d, qhat))

\* The quotient digit estimated from the two highest digits of the remainder r2
\* is at most 2 too large.
BDivEstimate(n, d, i, q, r2) ==
    LET est == (Limb(r2, Len(d) + 1) * LimbBase + Limb(r2, Len(d))) \div d[Len(d)]
    IN  BDivTake(n, d, i, q, r2, IF est > LimbBase - 1 THEN LimbBase - 1 ELSE est)

BDivFrom(n, d, i, q, r) ==
    IF i = 0 THEN [q |-> BNorm(q), r |-> r]
    ELSE BDivEstimate(n, d, i, q, BNorm(<<n[i]>> \o r))

BDivLong(n, d) == BDivFrom(n, d, Len(n), <<>>, <<>>)

\* n \div d as q, and whether n % d is 0 as r = <<>>, for d > 0
BDivMod(n, d) ==
    IF Len(d) = 1 THEN BDivDigit(n, d[1], Len(n), <<>>, 0)
    ELSE BDivLong(BShl(n, LimbBits - IntBitLen(d[Len(d)])),
                  BShl(d, LimbBits - IntBitLen(d[Len(d)])))

\* Numbers.

Zero == [s |-> 0, m |-> <<>>, e |-> 0]

\* NaN, and a field that is undefined, which is NaN in every operation on Numbers
NaN == [s |-> 0, m |-> <<>>, e |-> 1]

\* whether a or b is NaN
AnyNaN(a, b) == a = NaN \/ b = NaN

\* s * m * 2^e for m # 0 with tz trailing zero bits
CanonBy(s, m, e, tz) == [s |-> s, m |-> BShr(m, tz), e |-> e + tz]

\* the Number s * m * 2^e, for m of at most Precision bits
Canon(s, m, e) == IF m = <<>> THEN Zero ELSE CanonBy(s, m, e, BTrailingZeros(m))

\* m + f without its drop lowest bits, rounded to nearest, ties to even
Rounded(m, more, drop) ==
    BAdd(BShr(m, drop),
         IF /\ BBit(m, drop - 1) = 1
            /\ (more \/ ~BLowZero(m, drop - 1) \/ BBit(m, drop) = 1)
         THEN <<1>> ELSE <<>>)

RoundBy(s, m, e, more, drop) ==
    Canon(s, IF drop <= 0 THEN m ELSE Rounded(m, more, drop),
          IF drop <= 0 THEN e ELSE e + drop)

\* s * (m + f) * 2^e rounded to the nearest Number, ties to the even mantissa, for
\* a fraction f that is 0 (more FALSE) or lies between 0 and 1 (more TRUE, and then
\* m has more than Precision bits)
Round(s, m, e, more) == RoundBy(s, m, e, more, BBitLen(m) - Precision)

\* the Number of an integer
R(i) == Canon(IF i < 0 THEN -1 ELSE 1, BFromInt(Abs(i)), 0)

RNeg(a) == [a EXCEPT !.s = -a.s]

\* the mantissa of a when its exponent is lowered to e
Mantissa(a, e) == BShl(a.m, a.e - e)

LowExp(a, b) == IF a.e < b.e THEN a.e ELSE b.e

\* the comparison of a and b of one sign, ta and tb being the places of their highest bits
RCmpBy(a, b, ta, tb) ==
    IF ta # tb THEN (IF ta < tb THEN -a.s ELSE a.s)
    ELSE a.s * BCmp(Mantissa(a, LowExp(a, b)), Mantissa(b, LowExp(a, b)))

\* -1, 0, 1 as a < b, a = b, a > b, for a and b other than NaN
RCmp(a, b) ==
    IF a = b THEN 0
    ELSE IF a.s # b.s THEN (IF a.s < b.s THEN -1 ELSE 1)
    ELSE RCmpBy(a, b, BBitLen(a.m) + a.e, BBitLen(b.m) + b.e)

\* sa * ma * 2^e + sb * mb * 2^e, c being the comparison of ma and mb
RAddAligned(sa, ma, sb, mb, e, c) ==
    Round(IF sa = sb \/ c >= 0 THEN sa ELSE sb,
          IF sa = sb THEN BAdd(ma, mb)
          ELSE BSub(IF c >= 0 THEN ma ELSE mb, IF c >= 0 THEN mb ELSE ma),
          e, FALSE)

RAddAt(a, b, ma, mb, e) == RAddAligned(a.s, ma, b.s, mb, e, BCmp(ma, mb))

RAdd(a, b) ==
    IF AnyNaN(a, b) THEN NaN
    ELSE IF a.s = 0 THEN b
    ELSE IF b.s = 0 THEN a
    ELSE RAddAt(a, b, Mantissa(a, LowExp(a, b)), Mantissa(b, LowExp(a, b)), LowExp(a, b))

RSub(a, b) == RAdd(a, RNeg(b))

RMul(a, b) ==
    IF AnyNaN(a, b) THEN NaN
    ELSE Round(a.s * b.s,
               BMul(IF Len(a.m) < Len(b.m) THEN b.m ELSE a.m,
                    IF Len(a.m) < Len(b.m) THEN a.m ELSE b.m),
               a.e + b.e, FALSE)

RDivRound(s, qr, e) == Round(s, qr.q, e, qr.r # <<>>)

\* a / b from the quotient of a's mantissa shifted left by k bits and b's
RDivBy(a, b, k) == RDivRound(a.s * b.s, BDivMod(BShl(a.m, k), b.m), a.e - b.e - k)

\* a / b for b # 0: the quotient of the mantissas to Precision + 2 bits or more,
\* and whether the division leaves a remainder, rounded.  (The animator divides
\* by equatorialRadius, by a viewportSize that line 156 found above 0, and by an
\* animationDuration that line 163 keeps at 1 or more.)
RDiv(a, b) ==
    IF AnyNaN(a, b) THEN NaN
    ELSE IF a.s = 0 THEN Zero
    ELSE RDivBy(a, b, IF Precision + 3 + BBitLen(b.m) > BBitLen(a.m)
                      THEN Precision + 3 + BBitLen(b.m) - BBitLen(a.m)
                      ELSE 0)

\* a < b, false when either is NaN
RLt(a, b) == ~AnyNaN(a, b) /\ RCmp(a, b) < 0

\* a <= b, false when either is NaN
RLe(a, b) == ~AnyNaN(a, b) /\ RCmp(a, b) <= 0

\* Math.min(a, b)
RMin(a, b) == IF AnyNaN(a, b) THEN NaN ELSE IF RCmp(a, b) <= 0 THEN a ELSE b

\* Math.max(a, b)
RMax(a, b) == IF AnyNaN(a, b) THEN NaN ELSE IF RCmp(a, b) <= 0 THEN b ELSE a

RAbs(a) == [a EXCEPT !.s = Abs(a.s)]

----------
\* Collaborators (not part of GoToAnimator.js).

\* new Position(latitude 0, longitude, altitude)
Position(longitude, altitude) == [longitude |-> longitude, altitude |-> altitude]

\* Location.greatCircleDistance(a, b), radians
greatCircleDistance(a, b) == RAbs(RSub(b.longitude, a.longitude))

\* Location.greatCircleAzimuth(a, b): 1 east, -1 west, 0 north (coincident points)
greatCircleAzimuth(a, b) ==
    IF RLt(a.longitude, b.longitude) THEN 1
    ELSE IF RLt(b.longitude, a.longitude) THEN -1
    ELSE 0

\* Location.greatCircleLocation(p, azimuth, distance): the longitude reached after
\* distance radians
greatCircleLocation(p, azimuth, distance) ==
    RAdd(p.longitude, RMul(R(azimuth), distance))

\* The chord, in metres, of an arc of d radians: 2 R sin(d / 2), by the first two
\* terms of its series, R d - R d^3 / 24, arc being R d.
chordOf(d, arc) == RSub(arc, RDiv(RMul(arc, RMul(d, d)), R(24)))

\* The chord, in metres, of an arc of d radians
chordOfAngle(d) == chordOf(d, RMul(R(equatorialRadius), d))

\* pA.distanceTo(pB) for the surface points of a and b, metres
chordDistance(a, b) == chordOfAngle(greatCircleDistance(a, b))

\* wwd.canvas.clientWidth is 1/n of the width of the viewport (the canvas's drawing
\* buffer): the canvas of "wwd" is shown at its own size, that of "small" scaled down.
clientWidthDen(w) == IF w = "small" THEN SmallCanvas ELSE 1

\* navigator.currentState().pixelSizeAtDistance(distance) * canvas.clientWidth, metres
viewWidthAtDistance(distance) ==
    RDiv(RMul(distance, R(FrustumNum)), R(FrustumDen * clientWidthDen(wwd)))

\* navigator.getAsLookAt: the point under the camera, and the camera's range to it
getAsLookAt(cam) ==
    [longitude |-> cam.longitude,
     altitude  |-> R(LookAtAltitude),
     range     |-> RSub(cam.altitude, R(LookAtAltitude))]

\* globe.lookAtToCamera, no tilt: the camera is range above the look-at point
lookAtToCamera(lookAt) ==
    [longitude |-> lookAt.longitude, altitude |-> RAdd(lookAt.altitude, lookAt.range)]

----------------------------------------------------------------------------
\* Arguments.

\* The longitude of the point x metres east of longitude 0.
East(x) == RDiv(R(x), R(equatorialRadius))

\* goTo's position argument: null, a Location (no altitude) or a Position.
NullPosition ==
    [isNull |-> TRUE, longitude |-> Zero, hasAltitude |-> FALSE, altitude |-> Zero]

LocationArg(longitude) ==
    [isNull |-> FALSE, longitude |-> longitude, hasAltitude |-> FALSE, altitude |-> Zero]

PositionArg(longitude, altitude) ==
    [isNull |-> FALSE, longitude |-> longitude, hasAltitude |-> TRUE, altitude |-> altitude]

\* goTo's completionCallback argument: a function, or "none" for null/undefined.
Callbacks == {"none", "f", "g"}

\* A position field that is undefined.
NoPosition == Position(NaN, NaN)

----------------------------------------------------------------------------
\* GoToAnimator.prototype.getTargetPosition

getTargetPosition(cam, position) ==
    LET lookAt0 == getAsLookAt(cam)
        lookAt1 == IF position.hasAltitude
                   THEN [lookAt0 EXCEPT !.altitude = position.altitude]
                   ELSE lookAt0
        lookAt2 == [lookAt1 EXCEPT !.longitude = position.longitude]
        resultCamera == lookAtToCamera(lookAt2)
    IN  Position(resultCamera.longitude, resultCamera.altitude)

\* goTo: the total range to travel
rangeDistanceOf(start, target, maxAlt) ==
    IF RLt(start.altitude, maxAlt)
    THEN RAdd(RMax(R(0), RSub(maxAlt, start.altitude)), RAbs(RSub(target.altitude, maxAlt)))
    ELSE RAbs(RSub(target.altitude, start.altitude))

\* Mutant of animationDurationOf: the travel time is not reduced for close positions.
animationDurationFull(animationDistance, viewportSize) == RMax(R(1), R(travelTime))

\* goTo: the animation's duration
animationDurationOf(animationDistance, viewportSize) ==
    LET reduced == IF RLt(animationDistance, RMul(R(2), viewportSize))
                   THEN RMin(RMul(RDiv(animationDistance, viewportSize), R(travelTime)),
                             R(travelTime))
                   ELSE R(travelTime)
    IN  RMax(R(1), reduced)

\* Mutant of samePositions: no early return.
samePositionsNever(animationDistance) == FALSE

\* goTo: whether the call returns before it sets the velocities and the timer
samePositions(animationDistance) == animationDistance = R(0)

\* Mutant of maxAltitudeOf: the camera never starts above the maximum altitude.
maxAltitudeAtLeastStart(start, target, panDistance, viewportSize) ==
    RMax(start.altitude, chordDistance(start, target))

\* goTo: how high the camera backs out
maxAltitudeOf(start, target, panDistance, viewportSize) ==
    IF RLe(panDistance, RMul(R(2), viewportSize))
    THEN start.altitude
    ELSE chordDistance(start, target)

\* goTo, lines 163-169: the fields and the velocities, from the ones computed before
goToVelocities(cam, start, target, panDistance, maxAlt, rangeDistance, animationDistance, animationDuration, t2) ==
    [targetPosition |-> target,
     startPosition  |-> start,
     maxAltitude    |-> maxAlt,
     maxAltitudeReachedTime |-> IF RLe(maxAlt, cam.altitude) THEN t2 ELSE 0,
     panDistance    |-> panDistance,
     rangeDistance  |-> rangeDistance,
     animationDistance |-> animationDistance,
     animationDuration |-> animationDuration,
     panVelocity    |-> RDiv(panDistance, animationDuration),
     rangeVelocity  |-> RDiv(rangeDistance, animationDuration)]

\* goTo, lines 156-160: the duration
goToDuration(cam, start, target, panDistance, viewportSize, maxAlt, rangeDistance, animationDistance, t2) ==
    goToVelocities(cam, start, target, panDistance, maxAlt, rangeDistance, animationDistance,
                   animationDurationOf(animationDistance, viewportSize), t2)

\* goTo, line 151: the distance that governs the duration, radians
animationDistanceOf(panDistance, rangeDistance) ==
    RMax(panDistance, RDiv(rangeDistance, R(equatorialRadius)))

\* goTo, line 151, for the distances computed before
goToDistance(cam, start, target, panDistance, viewportSize, maxAlt, rangeDistance, t2) ==
    goToDuration(cam, start, target, panDistance, viewportSize, maxAlt, rangeDistance,
                 animationDistanceOf(panDistance, rangeDistance), t2)

\* goTo, lines 143-148: the range to travel
goToRange(cam, start, target, panDistance, viewportSize, maxAlt, t2) ==
    goToDistance(cam, start, target, panDistance, viewportSize, maxAlt,
                 rangeDistanceOf(start, target, maxAlt), t2)

\* goTo, lines 118-133: the maximum altitude
goToMaxAltitude(cam, start, target, panDistance, viewportSize, t2) ==
    goToRange(cam, start, target, panDistance, viewportSize,
              maxAltitudeOf(start, target, panDistance, viewportSize), t2)

\* goTo, lines 127-128: the size of the viewport, radians
viewportSizeOf(altitude) == RDiv(viewWidthAtDistance(altitude), R(equatorialRadius))

\* goTo, lines 112-128: the pan distance and the size of the viewport
goToPan(cam, start, target, t2) ==
    goToMaxAltitude(cam, start, target, greatCircleDistance(start, target),
                    viewportSizeOf(start.altitude), t2)

\* goTo: everything the call computes from the camera and the position, t2 being
\* the clock as line 138 reads it (line 109 reads it for startTime)
goToRun(cam, position, t2) ==
    goToPan(cam, Position(cam.longitude, cam.altitude), getTargetPosition(cam, position), t2)

----------------------------------------------------------------------------
\* Mutant of updateRange: the call that sets maxAltitudeReachedTime reports the
\* rising phase, and with it the altitude sub-motion, done.
updateRangeDoneAtTop(cam, t, t2) ==
    IF maxAltitudeReachedTime = 0
    THEN LET nextRange == RMin(RAdd(startPosition.altitude,
                                    RMul(rangeVelocity, R(t - startTime))),
                               maxAltitude)
             reached   == RLt(RAbs(RSub(cam.altitude, nextRange)), R(1))
         IN  [altitude |-> nextRange,
              maxAltitudeReachedTime |-> IF reached THEN t2 ELSE 0,
              continueAnimation |-> ~reached]
    ELSE LET travelled == RMul(rangeVelocity, R(t - maxAltitudeReachedTime))
             nextRange == IF RLt(targetPosition.altitude, maxAltitude)
                          THEN RMax(RSub(maxAltitude, travelled), targetPosition.altitude)
                          ELSE RMin(RAdd(maxAltitude, travelled), targetPosition.altitude)
         IN  [altitude |-> nextRange,
              maxAltitudeReachedTime |-> maxAltitudeReachedTime,
              continueAnimation |->
                  RLt(R(1), RAbs(RSub(nextRange, targetPosition.altitude)))]

\* updateRange, lines 243-250: the rising phase, nextRange being the altitude for now
\* and t2 the clock as line 246 reads it
updateRangeRising(cam, nextRange, t2) ==
    [altitude |-> nextRange,
     maxAltitudeReachedTime |->
         IF RLt(RAbs(RSub(cam.altitude, nextRange)), R(1)) THEN t2 ELSE 0,
     continueAnimation |-> TRUE]

\* updateRange, lines 259-264: the settling phase, nextRange being the altitude for now
updateRangeSettling(nextRange) ==
    [altitude |-> nextRange,
     maxAltitudeReachedTime |-> maxAltitudeReachedTime,
     continueAnimation |-> RLt(R(1), RAbs(RSub(nextRange, targetPosition.altitude)))]

\* updateRange, lines 253-258: the altitude of the settling phase, travelled being
\* rangeVelocity * elapsedTime
nextRangeSettling(travelled) ==
    IF RLt(targetPosition.altitude, maxAltitude)
    THEN RMax(RSub(maxAltitude, travelled), targetPosition.altitude)
    ELSE RMin(RAdd(maxAltitude, travelled), targetPosition.altitude)

\* GoToAnimator.prototype.updateRange, the navigator's camera being cam: the altitude
\* written, this.maxAltitudeReachedTime afterwards, and the result.  t is the clock
\* as line 242 or line 252 reads it, t2 as line 246 reads it.
updateRange(cam, t, t2) ==
    IF maxAltitudeReachedTime = 0
    THEN updateRangeRising(cam,
                           RMin(RAdd(startPosition.altitude,
                                     RMul(rangeVelocity, R(t - startTime))),
                                maxAltitude),
                           t2)
    ELSE updateRangeSettling(
             nextRangeSettling(RMul(rangeVelocity, R(t - maxAltitudeReachedTime))))

\* updateLocation, line 280: the step along the great circle
nextDistanceFor(distanceForNow, distanceTravelled, distanceRemaining) ==
    RMin(RSub(distanceForNow, distanceTravelled), distanceRemaining)

\* updateLocation, lines 275-280: the step along the great circle, t being the
\* clock as line 275 reads it
nextDistanceOf(currentPosition, t) ==
    nextDistanceFor(RMul(panVelocity, R(t - startTime)),
                    greatCircleDistance(startPosition, currentPosition),
                    greatCircleDistance(currentPosition, targetPosition))

\* updateLocation, line 292: the angle of 1 metre of arc
OneMetre == RDiv(R(1), R(equatorialRadius))

\* Mutant of locationReached: no cap on the time the pan may take.
locationReachedNoCap(nextDistance, elapsedTime) == RLt(nextDistance, OneMetre)

\* updateLocation: whether the pan is done
locationReached(nextDistance, elapsedTime) ==
    RLt(nextDistance, OneMetre) \/ elapsedTime > MaxPanTime

\* updateLocation, lines 281-299: the longitude written and the result, for the step
updateLocationBy(currentPosition, nextDistance, elapsedTime) ==
    [longitude |-> greatCircleLocation(currentPosition,
                                       greatCircleAzimuth(currentPosition, targetPosition),
                                       nextDistance),
     nextDistance |-> nextDistance,
     continueAnimation |-> ~locationReached(nextDistance, elapsedTime)]

\* GoToAnimator.prototype.updateLocation(currentPosition): the longitude written
\* and the result, t being the clock as line 275 reads it
updateLocation(currentPosition, t) ==
    updateLocationBy(currentPosition, nextDistanceOf(currentPosition, t), t - startTime)

\* Mutant of updateOf: update returns without the call of wwd.redraw().
updateOfNoRedraw(range, location) ==
    [camera |-> [longitude |-> location.longitude, altitude |-> range.altitude],
     maxAltitudeReachedTime |-> range.maxAltitudeReachedTime,
     updated         |-> TRUE,
     redraw          |-> FALSE,
     rangeRunning    |-> range.continueAnimation,
     locationRunning |-> location.continueAnimation,
     continueAnimation |-> location.continueAnimation \/ range.continueAnimation]

\* update, lines 222-227: what the two sub-motions' results amount to; after
\* them update calls this.wwd.redraw() (line 225), whatever they returned
updateOf(range, location) ==
    [camera |-> [longitude |-> location.longitude, altitude |-> range.altitude],
     maxAltitudeReachedTime |-> range.maxAltitudeReachedTime,
     updated         |-> TRUE,
     redraw          |-> TRUE,
     rangeRunning    |-> range.continueAnimation,
     locationRunning |-> location.continueAnimation,
     continueAnimation |-> location.continueAnimation \/ range.continueAnimation]

\* GoToAnimator.prototype.update: both sub-motions get the position read when update
\* starts, and the redraw is requested after both.  t, t2 and t3 are the clock as
\* updateRange (line 242 or 252, line 246) and updateLocation (line 275) read it.
update(t, t2, t3) ==
    updateOf(updateRange(camera, t, t2),
             updateLocation(Position(camera.longitude, camera.altitude), t3))

\* Mutant of cancelledTick: the cancelled branch does not return, the update runs.
cancelledTickNoReturn(t, t2, t3) == update(t, t2, t3)

\* timerCallback when this.cancelled is set: no update, no redraw, no further timer
cancelledTick(t, t2, t3) ==
    [camera |-> camera,
     maxAltitudeReachedTime |-> maxAltitudeReachedTime,
     updated         |-> FALSE,
     redraw          |-> FALSE,
     rangeRunning    |-> FALSE,
     locationRunning |-> FALSE,
     continueAnimation |-> FALSE]

\* timerCallback: what the firing does to the camera, and whether it goes on
timerCallbackStep(t, t2, t3) ==
    IF cancelled THEN cancelledTick(t, t2, t3) ELSE update(t, t2, t3)

\* Mutant of callbackOf: the closure invokes the callback of the call that created it.
callbackOfClosure(k) == [fn |-> passed[k], call |-> k]

\* timerCallback of the k-th goTo: the callback it invokes when it does not go on
callbackOf(k) == completionCallback

----------------------------------------------------------------------------
\* The states after construction.

NoUpdate == [at |-> 0, rangeRunning |-> FALSE, locationRunning |-> FALSE]

NotDone == [range |-> 0, location |-> 0]

NoDirect == [count |-> 0, returned |-> "none"]

Chains == 1 .. MaxCalls

Constructed(w, cam) ==
    /\ wwd = w
    /\ camera = cam
    /\ now = ClockOrigin
    /\ timer = [k \in Chains |-> 0]
    /\ redrawn = 0
    /\ completionCallback = [fn |-> "none", call |-> 0]
    /\ cancelled = FALSE
    /\ targetPosition = NoPosition
    /\ startPosition = NoPosition
    /\ startTime = 0
    /\ maxAltitude = NaN
    /\ maxAltitudeReachedTime = 0
    /\ panVelocity = NaN
    /\ rangeVelocity = NaN
    /\ calls = 0
    /\ passed = [k \in Chains |-> "none"]
    /\ requested = NullPosition
    /\ invoked = [k \in Chains |-> 0]
    /\ thrown = IF w = "null" THEN "constructor" ELSE "none"
    /\ cancelledRuns = {}
    /\ lastUpdate = NoUpdate
    /\ firstDone = NotDone
    /\ direct = NoDirect
    /\ slow = 0

----------------------------------------------------------------------------
\* The operations.

\* The clock, between two reads of one call, stands still or moves on, here by
\* one interval of the timer, which keeps the times of a behaviour few.
Gaps == {0, animationFrequency}

\* The clock moves on by gap in all between the reads of a call.
moveOn(gap) ==
    /\ gap # 0 => slow < MaxSlow
    /\ slow' = IF gap # 0 THEN slow + 1 ELSE slow

\* Mutant of throwMissingPosition: the argument is checked after the first assignments.
throwAfterStore(callback) ==
    /\ thrown' = "goTo"
    /\ completionCallback' = [fn |-> callback, call |-> calls]
    /\ cancelled' = FALSE
    /\ UNCHANGED <<wwd, camera, now, timer, redrawn, targetPosition, startPosition, startTime,
                   maxAltitude, maxAltitudeReachedTime, panVelocity, rangeVelocity,
                   calls, passed, requested, invoked, cancelledRuns, lastUpdate, firstDone,
                   direct, slow>>

\* goTo: the position is missing, the call throws
throwMissingPosition(callback) ==
    /\ thrown' = "goTo"
    /\ UNCHANGED <<wwd, camera, now, timer, redrawn, fields, calls, passed, requested,
                   invoked, cancelledRuns, lastUpdate, firstDone, direct, slow>>

\* Mutant of returnSamePositions: the velocities are set before the call returns.
returnAfterVelocities(run) ==
    /\ panVelocity' = run.panVelocity
    /\ rangeVelocity' = run.rangeVelocity
    /\ UNCHANGED timer

\* goTo: the return for coincident positions, before the velocities and the timer
returnSamePositions(run) == UNCHANGED <<panVelocity, rangeVelocity, timer>>

\* goTo, the k-th call with a position: the assignments, run being what the call
\* computes and t2 the clock when the call ends (line 109 read it as now)
goToOf(position, callback, k, run, t2) ==
    /\ completionCallback' = [fn |-> callback, call |-> k]
    /\ cancelled' = FALSE
    /\ targetPosition' = run.targetPosition
    /\ startPosition' = run.startPosition
    /\ startTime' = now
    /\ maxAltitude' = run.maxAltitude
    /\ maxAltitudeReachedTime' = run.maxAltitudeReachedTime
    /\ IF samePositions(run.animationDistance)
       THEN returnSamePositions(run)
       ELSE /\ panVelocity' = run.panVelocity
            /\ rangeVelocity' = run.rangeVelocity
            /\ timer' = [timer EXCEPT ![k] = t2 + animationFrequency]
    /\ now' = t2
    /\ calls' = k
    /\ passed' = [passed EXCEPT ![k] = callback]
    /\ requested' = position

\* goTo(position, callback); the clock moves on by gap between the reads of lines
\* 109 and 138
GoTo(position, callback, gap) ==
    /\ wwd # "null"
    /\ IF position.isNull
       THEN throwMissingPosition(callback)
       ELSE /\ calls < MaxCalls
            /\ moveOn(gap)
            /\ goToOf(position, callback, calls + 1, goToRun(camera, position, now + gap),
                      now + gap)
            /\ thrown' = "none"
            /\ lastUpdate' = NoUpdate
            /\ firstDone' = NotDone
            /\ UNCHANGED <<wwd, camera, redrawn, invoked, cancelledRuns, direct>>

\* cancel()
Cancel ==
    /\ wwd # "null"
    /\ cancelled' = TRUE
    /\ cancelledRuns' = IF calls >= 1 /\ timer[calls] # 0
                        THEN cancelledRuns \cup {calls}
                        ELSE cancelledRuns
    /\ thrown' = "none"
    /\ UNCHANGED <<wwd, camera, now, timer, redrawn, completionCallback, targetPosition,
                   startPosition, startTime, maxAltitude, maxAltitudeReachedTime,
                   panVelocity, rangeVelocity, calls, passed, requested, invoked,
                   lastUpdate, firstDone, direct, slow>>

\* Mutant of nextTimer: timerCallback sets a timer whatever update returned.
nextTimerAlways(step, t) == t + animationFrequency

\* timerCallback: the due time of the timer it sets, 0 when it sets none
nextTimer(step, t) == IF step.continueAnimation THEN t + animationFrequency ELSE 0

\* timerCallback of the k-th goTo, step being what it does to the camera, cb the
\* callback it invokes when it does not go on, and t the clock when it ends
timerCallbackOf(k, t, step, cb) ==
    /\ now' = t
    /\ camera' = step.camera
    /\ maxAltitudeReachedTime' = step.maxAltitudeReachedTime
    /\ redrawn' = IF step.redraw THEN t ELSE redrawn
    /\ timer' = [timer EXCEPT ![k] = nextTimer(step, t)]
    /\ invoked' = IF ~step.continueAnimation /\ cb.fn # "none"
                  THEN [invoked EXCEPT ![cb.call] = @ + 1]
                  ELSE invoked
    /\ lastUpdate' = IF step.updated
                     THEN [at |-> t, rangeRunning |-> step.rangeRunning,
                           locationRunning |-> step.locationRunning]
                     ELSE lastUpdate
    /\ firstDone' = IF step.updated
                    THEN [range    |-> IF firstDone.range = 0 /\ ~step.rangeRunning
                                       THEN t ELSE firstDone.range,
                          location |-> IF firstDone.location = 0 /\ ~step.locationRunning
                                       THEN t ELSE firstDone.location]
                    ELSE firstDone

\* timerCallback of the k-th goTo, running at time t; t2 and t3 are the clock as
\* update's later reads find it
timerCallback(k, t, t2, t3) ==
    timerCallbackOf(k, IF cancelled THEN t ELSE t3, timerCallbackStep(t, t2, t3),
                    callbackOf(k))

\* The timer of the k-th goTo fires, late ms after it is due (0: on time; setTimeout
\* promises only a minimum delay): timerCallback runs, and the clock moves on by
\* gap2 and by gap3 between update's reads.  Of the pending timers the one due
\* first fires first.  (A cancelled timerCallback does not read the clock.)
Tick(k, late, gap2, gap3) ==
    /\ timer[k] # 0
    /\ \A j \in Chains : timer[j] # 0 => timer[k] <= timer[j]
    /\ cancelled => gap2 + gap3 = 0
    /\ moveOn(gap2 + gap3)
    /\ timerCallback(k, (IF now < timer[k] THEN timer[k] ELSE now) + late,
                     (IF now < timer[k] THEN timer[k] ELSE now) + late + gap2,
                     (IF now < timer[k] THEN timer[k] ELSE now) + late + gap2 + gap3)
    /\ thrown' = "none"
    /\ UNCHANGED <<wwd, completionCallback, cancelled, targetPosition, startPosition,
                   startTime, maxAltitude, panVelocity, rangeVelocity, calls, passed,
                   requested, cancelledRuns, direct>>

----------------------------------------------------------------------------
\* update, updateRange and updateLocation are methods of the prototype: others
\* than timerCallback can call them.

\* Such a call before the first goTo throws: this.startPosition is undefined
\* (line 243; line 276 for updateLocation, in Location.greatCircleDistance).
throwNoRun(t) ==
    /\ now' = t
    /\ thrown' = "update"
    /\ direct' = [count |-> direct.count + 1, returned |-> "none"]
    /\ UNCHANGED <<wwd, camera, timer, redrawn, fields, calls, passed, requested, invoked,
                   cancelledRuns, lastUpdate, firstDone, slow>>

\* Such a call returns at time t, gap after it began: the camera and
\* this.maxAltitudeReachedTime it leaves, whether it called wwd.redraw(), and its
\* result.  It sets no timer and invokes no callback.
returnDirect(t, gap, cam, reachedTime, continueAnimation, redraw) ==
    /\ moveOn(gap)
    /\ now' = t
    /\ redrawn' = IF redraw THEN t ELSE redrawn
    /\ camera' = cam
    /\ maxAltitudeReachedTime' = reachedTime
    /\ direct' = [count |-> direct.count + 1,
                  returned |-> IF continueAnimation THEN "true" ELSE "false"]
    /\ thrown' = "none"
    /\ UNCHANGED <<wwd, timer, completionCallback, cancelled, targetPosition,
                   startPosition, startTime, maxAltitude, panVelocity, rangeVelocity,
                   calls, passed, requested, invoked, cancelledRuns, lastUpdate, firstDone>>

\* update() returns at time t what step tells
returnUpdate(t, gap, step) ==
    returnDirect(t, gap, step.camera, step.maxAltitudeReachedTime, step.continueAnimation,
                 step.redraw)

\* update(), called wait ms after the last operation
Update(wait, gap2, gap3) ==
    /\ wwd # "null"
    /\ direct.count < MaxDirect
    /\ IF calls = 0
       THEN gap2 + gap3 = 0 /\ throwNoRun(now + wait)
       ELSE returnUpdate(now + wait + gap2 + gap3, gap2 + gap3,
                         update(now + wait, now + wait + gap2, now + wait + gap2 + gap3))

\* updateRange(currentPosition) returns at time t what range tells; it does not
\* read its argument, and requests no redraw
returnUpdateRange(t, gap, range) ==
    returnDirect(t, gap, [camera EXCEPT !.altitude = range.altitude],
                 range.maxAltitudeReachedTime, range.continueAnimation, FALSE)

\* updateRange(currentPosition), called wait ms after the last operation
UpdateRange(wait, gap2) ==
    /\ wwd # "null"
    /\ direct.count < MaxDirect
    /\ IF calls = 0
       THEN gap2 = 0 /\ throwNoRun(now + wait)
       ELSE returnUpdateRange(now + wait + gap2, gap2,
                              updateRange(camera, now + wait, now + wait + gap2))

\* updateLocation(currentPosition) returns at time t what location tells; it
\* requests no redraw
returnUpdateLocation(t, location) ==
    returnDirect(t, 0, [camera EXCEPT !.longitude = location.longitude],
                 maxAltitudeReachedTime, location.continueAnimation, FALSE)

\* updateLocation(currentPosition), called wait ms after the last operation
UpdateLocation(currentPosition, wait) ==
    /\ wwd # "null"
    /\ direct.count < MaxDirect
    /\ IF calls = 0
       THEN throwNoRun(now + wait)
       ELSE returnUpdateLocation(now + wait, updateLocation(currentPosition, now + wait))

----------------------------------------------------------------------------
\* Spec: every interleaving of goTo, cancel and timer firings (each on time), on short moves.

Cameras == {[longitude |-> East(0), altitude |-> R(600)]}

Positions ==
    {NullPosition, LocationArg(East(0)), LocationArg(East(4)), PositionArg(East(0), R(23))}

Init ==
    \/ \E cam \in Cameras : Constructed("wwd", cam)
    \/ Constructed("null", [longitude |-> East(0), altitude |-> R(600)])

Next ==
    \/ \E position \in Positions, callback \in Callbacks, gap \in Gaps :
          GoTo(position, callback, gap)
    \/ Cancel
    \/ \E k \in Chains, gap2 \in Gaps, gap3 \in Gaps : Tick(k, 0, gap2, gap3)

Spec == Init /\ [][Next]_vars

----------------------------------------------------------------------------
\* SpecRun: one goTo and then its ticks alone, each on time, on short and long moves.

RunCameras == {[longitude |-> East(0), altitude |-> R(a)] : a \in {60, 600}}

RunPositions ==
    {LocationArg(East(x)) : x \in {0, 10, 110, 300}}
        \cup {PositionArg(East(300), R(0)), PositionArg(East(110), R(0)),
              PositionArg(East(10), R(1000))}

InitRun == \E cam \in RunCameras : Constructed("wwd", cam)

Start ==
    \E position \in RunPositions, gap \in Gaps : calls = 0 /\ GoTo(position, "f", gap)

Fire == \E gap2 \in Gaps, gap3 \in Gaps : Tick(1, 0, gap2, gap3)

NextRun == Start \/ Fire

SpecRun == InitRun /\ [][NextRun]_vars

----------------------------------------------------------------------------
\* Steps, as the claims speak of them.

\* The pending timer of the k-th goTo fires in this step.
TickStep(k) == timer[k] # 0 /\ timer'[k] # timer[k]

\* A goTo call passes its argument check in this step.
GoToStep == calls' = calls + 1

\* The completion callback is present.
HasCallback == completionCallback.fn # "none"

----------------------------------------------------------------------------
\* C1: the completion callback passed to a goTo call that scheduled a tick is
\* invoked at most once for that call.
C1_AtMostOnce == \A k \in Chains : invoked[k] <= 1

\* C2: a tick that fires while the cancellation flag is set (cancel() was called and
\* no goTo since) invokes the completion callback, when there is one, exactly once,
\* writes nothing to the camera, runs no update (maxAltitudeReachedTime and the
\* record of the last update are untouched, no redraw is requested) and schedules
\* no further tick.
C2_CancelledTick ==
    [][\A k \in Chains :
          (TickStep(k) /\ cancelled) =>
              /\ camera' = camera
              /\ maxAltitudeReachedTime' = maxAltitudeReachedTime
              /\ lastUpdate' = lastUpdate
              /\ redrawn' = redrawn
              /\ timer'[k] = 0
              /\ \A j \in Chains :
                    invoked'[j] = invoked[j]
                        + (IF HasCallback /\ j = completionCallback.call THEN 1 ELSE 0)]_vars

\* C2 witness: cancel() came before the first tick of a run that has a callback; the
\* tick has fired, the callback was invoked once, the camera is where the run started.
C2_Witness ==
    /\ cancelled
    /\ calls = 1
    /\ passed[1] = "f"
    /\ invoked[1] = 1
    /\ timer[1] = 0
    /\ lastUpdate.at = 0
    /\ startPosition # targetPosition
    /\ camera = startPosition
    /\ now > startTime

\* C3: once cancel() was called during a run, every later tick of that run's timer
\* leaves the camera alone and schedules no further tick, whatever comes in between.
C3_CancelSticks ==
    [][\A k \in cancelledRuns :
          TickStep(k) => (camera' = camera /\ timer'[k] = 0)]_vars

\* C5: a goTo whose resolved target equals the start position schedules no tick and
\* invokes no callback.
C5_Degenerate ==
    [][(GoToStep /\ startPosition' = targetPosition') =>
          (timer' = timer /\ invoked' = invoked)]_vars

\* C5 witness: the first goTo resolved to the camera's own position; no timer is set.
C5_Witness ==
    /\ calls = 1
    /\ thrown = "none"
    /\ startPosition = targetPosition
    /\ startPosition = camera
    /\ passed[1] = "f"
    /\ timer[1] = 0
    /\ invoked[1] = 0

\* C6: goTo with a missing position throws and changes no field of the animator, no
\* timer and not the camera; constructing without a World Window throws, and the
\* object never comes to be.
C6_InvalidArgument ==
    /\ [](wwd = "null" => (thrown = "constructor" /\ calls = 0 /\ timer = [k \in Chains |-> 0]))
    /\ [][thrown' = "goTo" => UNCHANGED <<fields, timer, camera, now, calls, invoked>>]_vars

\* C6 witness: goTo(null) threw while a run with a callback had its tick pending.
C6_Witness ==
    /\ thrown = "goTo"
    /\ calls = 1
    /\ completionCallback.fn = "f"
    /\ timer[1] # 0
    /\ lastUpdate.at # 0

\* C8: a tick never invokes the callback of a superseded goTo call, when that callback
\* differs from the one the latest call passed.
C8_Superseded ==
    [][\A k \in Chains :
          (k < calls /\ passed[k] # passed[calls])
              => invoked'[k] = invoked[k]]_vars

\* C8 witness: goTo(p1, f) scheduled a tick, goTo(p2, g) came while it was pending,
\* every timer has run out and the camera has moved: f was never invoked (g was, by
\* the timer of either call).
C8_Witness ==
    /\ calls = 2
    /\ passed[1] = "f"
    /\ passed[2] = "g"
    /\ \A k \in Chains : timer[k] = 0
    /\ lastUpdate.at # 0
    /\ invoked[1] = 0
    /\ invoked[2] = 2

\* C9: the pending tick of a superseded goTo, when it fires, schedules no further
\* tick: the prior timer chain ends with it.
C9_PriorChainEnds ==
    [][\A k \in Chains : (k < calls /\ TickStep(k)) => timer'[k] = 0]_vars

----------------------------------------------------------------------------
\* C4: when update() returns false (both sub-motions report done), the camera is
\* within 1 metre of the target altitude and within the angle of 1 metre of arc
\* (1 / equatorialRadius) of the target location.
C4_Arrives ==
    (lastUpdate.at # 0 /\ ~lastUpdate.rangeRunning /\ ~lastUpdate.locationRunning) =>
        /\ RLe(RAbs(RSub(camera.altitude, targetPosition.altitude)), R(1))
        /\ RLe(greatCircleDistance(camera, targetPosition), OneMetre)

\* C7: when the run has both a pan and a range to cover, the first tick on which the
\* pan reports done and the first on which the range reports done are at most
\* animationFrequency apart.
C7_Yoked ==
    (/\ panVelocity # R(0)
     /\ rangeVelocity # R(0)
     /\ firstDone.range # 0
     /\ firstDone.location # 0) =>
        Abs(firstDone.range - firstDone.location) <= animationFrequency

\* C10: a tick in the rising phase (maxAltitudeReachedTime unset) does not lower the
\* camera; a tick in the settling phase does not take it farther from the target
\* altitude.
C10_Monotone ==
    [][TickStep(1) =>
          IF maxAltitudeReachedTime = 0
          THEN RLe(camera.altitude, camera'.altitude)
          ELSE RLe(RAbs(RSub(camera'.altitude, targetPosition.altitude)),
                   RAbs(RSub(camera.altitude, targetPosition.altitude)))]_vars

----------------------------------------------------------------------------
\* SpecNav: one goTo and its ticks, while others use the camera and the animator:
\* between two ticks the user moves the camera along the equator, and update,
\* updateRange and updateLocation are called from outside.

NavLongitudes == {East(8)}

NavCameras == {[longitude |-> East(0), altitude |-> R(600)]}

NavPositions == {LocationArg(East(10)), PositionArg(East(10), R(1000))}

InitNav == \E cam \in NavCameras : Constructed("wwd", cam)

StartNav ==
    \E position \in NavPositions, gap \in Gaps : calls = 0 /\ GoTo(position, "f", gap)

Navigate ==
    /\ calls = 1
    /\ timer[1] # 0
    /\ \E longitude \in NavLongitudes :
          /\ camera.longitude # longitude
          /\ camera' = [camera EXCEPT !.longitude = longitude]
    /\ UNCHANGED <<wwd, now, timer, redrawn, fields, history>>

\* Such a call comes at once, or 10 ms later: between two ticks.
Waits == {0, 10}

CallUpdate ==
    \E wait \in Waits, gap2 \in Gaps, gap3 \in Gaps : Update(wait, gap2, gap3)

CallUpdateRange == \E wait \in Waits, gap2 \in Gaps : UpdateRange(wait, gap2)

\* updateLocation is given the camera's position, as update gives it, or another.
CallUpdateLocation ==
    \E currentPosition \in {Position(camera.longitude, camera.altitude), targetPosition},
       wait \in Waits :
        UpdateLocation(currentPosition, wait)

NextNav ==
    StartNav \/ Fire \/ Navigate \/ CallUpdate \/ CallUpdateRange \/ CallUpdateLocation

SpecNav == InitNav /\ [][NextNav]_vars

----------------------------------------------------------------------------
\* SpecLate: one goTo and its ticks, each on time or late (setTimeout promises a
\* minimum delay only).

LatePositions ==
    {LocationArg(East(10)), LocationArg(East(110)), PositionArg(East(110), R(0)),
     PositionArg(East(10), R(1000))}

StartLate ==
    \E position \in LatePositions, gap \in Gaps : calls = 0 /\ GoTo(position, "f", gap)

FireLate == \E gap2 \in Gaps, gap3 \in Gaps : Tick(1, LateBy, gap2, gap3)

NextLate == StartLate \/ Fire \/ FireLate

SpecLate == InitRun /\ [][NextLate]_vars

----------------------------------------------------------------------------
\* SpecSolo: goTo is called only while no tick is pending, so each run is alone;
\* cancel and the ticks come in any order.

InitSolo == \E cam \in Cameras : Constructed("wwd", cam)

StartSolo ==
    /\ \A k \in Chains : timer[k] = 0
    /\ \E position \in Positions, callback \in Callbacks, gap \in Gaps :
          GoTo(position, callback, gap)

FireSolo == \E k \in Chains, gap2 \in Gaps, gap3 \in Gaps : Tick(k, 0, gap2, gap3)

NextSolo == StartSolo \/ Cancel \/ FireSolo

SpecSolo == InitSolo /\ [][NextSolo]_vars

----------------------------------------------------------------------------
\* SpecGoTo: what goTo computes, for cameras, canvases and positions of all kinds
\* (no timer fires).

GoToCanvases == {"wwd", "small"}

\* The clock moves on by 0, by 1 or by 20 ms between goTo's two reads.
GoToGaps == Gaps \cup {1}

GoToCameras == {[longitude |-> East(0), altitude |-> R(a)] : a \in {60, 600, 6000}}

GoToPositions ==
    {LocationArg(East(x)) : x \in {0, 1, 10, 110, 300, 2500}}
        \cup {PositionArg(East(0), R(23)), PositionArg(East(300), R(0)),
              PositionArg(East(10), R(1000))}

InitGoTo == \E w \in GoToCanvases, cam \in GoToCameras : Constructed(w, cam)

Call == \E position \in GoToPositions, gap \in GoToGaps : GoTo(position, "f", gap)

SpecGoTo == InitGoTo /\ [][Call]_vars

----------------------------------------------------------------------------
\* The run is a long move (the camera backs out) to a target below the start.
LongDescent ==
    /\ calls = 1
    /\ RLt(startPosition.altitude, maxAltitude)
    /\ RLt(targetPosition.altitude, startPosition.altitude)

\* C11: on a long move to a target below the start, the camera first rises (a tick
\* of the rising phase does not lower it, and writes nothing above maxAltitude) and
\* then descends (a tick of the settling phase does not raise it), and no tick
\* writes an altitude below the target's.
C11_RiseThenDescend ==
    [][(LongDescent /\ TickStep(1)) =>
          /\ RLe(targetPosition.altitude, camera'.altitude)
          /\ RLe(camera'.altitude, maxAltitude)
          /\ IF maxAltitudeReachedTime = 0
             THEN RLe(camera.altitude, camera'.altitude)
             ELSE RLe(camera'.altitude, camera.altitude)]_vars

----------------------------------------------------------------------------
\* C12: the altitude of the run's end point is the requested position's altitude
\* when it has one, and the navigator's camera altitude at the time of the call
\* otherwise.
C12_EndPointAltitude ==
    calls >= 1 =>
        targetPosition.altitude = IF requested.hasAltitude
                                  THEN requested.altitude
                                  ELSE startPosition.altitude

----------------------------------------------------------------------------
\* What goTo computed for the current run, from the fields it left.
RunPanDistance == greatCircleDistance(startPosition, targetPosition)

RunViewportSize == viewportSizeOf(startPosition.altitude)

RunIsShort == RLe(RunPanDistance, RMul(R(2), RunViewportSize))

\* C13: after every goTo, maxAltitude >= start.altitude, and maxAltitude equals
\* start.altitude when the move is short (panDistance <= 2 x viewportSize).
C13_AtLeastStart ==
    calls >= 1 =>
        /\ RLe(startPosition.altitude, maxAltitude)
        /\ RunIsShort => maxAltitude = startPosition.altitude

\* C13 amended: after every goTo, maxAltitude equals start.altitude when the move
\* is short, and the chord between the start's and the target's surface points
\* when it is long, be that chord above or below start.altitude.
C13_StartOrChord ==
    calls >= 1 =>
        maxAltitude = IF RunIsShort
                      THEN startPosition.altitude
                      ELSE chordDistance(startPosition, targetPosition)

\* A long move whose chord is below the start altitude: the camera starts above
\* the maximum altitude, which counts as reached at once, at the call's second
\* reading of the clock.
C13_Witness ==
    /\ calls = 1
    /\ ~RunIsShort
    /\ RLt(maxAltitude, startPosition.altitude)
    /\ maxAltitude = chordDistance(startPosition, targetPosition)
    /\ startTime < now
    /\ maxAltitudeReachedTime = now
    /\ timer[1] # 0

----------------------------------------------------------------------------
RunRangeDistance == rangeDistanceOf(startPosition, targetPosition, maxAltitude)

RunDistance == animationDistanceOf(RunPanDistance, RunRangeDistance)

\* C14: a local move over a nonzero distance has maxAltitude pinned to
\* start.altitude and both velocities derived from the duration
\* max(1, min(travelTime, (distance / viewportSize) x travelTime)); and the
\* velocities of any run over a nonzero distance are those of a duration of at
\* least 1 ms and at most travelTime.
C14_Duration ==
    (calls >= 1 /\ RunDistance # R(0)) =>
        /\ RunIsShort =>
               LET duration ==
                       RMax(R(1), RMin(R(travelTime),
                                       RMul(RDiv(RunDistance, RunViewportSize),
                                            R(travelTime))))
               IN  /\ maxAltitude = startPosition.altitude
                   /\ panVelocity = RDiv(RunPanDistance, duration)
                   /\ rangeVelocity = RDiv(RunRangeDistance, duration)
        /\ RLe(RDiv(RunPanDistance, R(travelTime)), panVelocity)
        /\ RLe(panVelocity, RunPanDistance)
        /\ RLe(RDiv(RunRangeDistance, R(travelTime)), rangeVelocity)
        /\ RLe(rangeVelocity, RunRangeDistance)

\* A local move so short, 1 metre of arc, that its duration is the floor of 1 ms.
C14_Witness ==
    /\ calls = 1
    /\ RunIsShort
    /\ RunPanDistance = OneMetre
    /\ RunRangeDistance = R(0)
    /\ panVelocity = OneMetre
    /\ timer[1] # 0

----------------------------------------------------------------------------
\* C15: a tick that finds the run not cancelled executes the altitude update and
\* the location update, both on the position read at its start and each at the
\* time it reads the clock (the altitude update not after the location update),
\* and then requests a redraw (wwd.redraw() is called when the location update
\* has read the clock, the last read of the tick); it schedules exactly one further
\* tick when a sub-motion reported running, and otherwise schedules none and
\* invokes the completion callback, if there is one, once.
C15_TickBody ==
    [][\A k \in Chains : (TickStep(k) /\ ~cancelled) =>
          \E gap2 \in Gaps, gap3 \in Gaps :
          LET range    == updateRange(camera, now' - gap3 - gap2, now' - gap3)
              location == updateLocation(Position(camera.longitude, camera.altitude), now')
              running  == range.continueAnimation \/ location.continueAnimation
          IN  /\ now <= now' - gap3 - gap2
              /\ camera'.altitude = range.altitude
              /\ maxAltitudeReachedTime' = range.maxAltitudeReachedTime
              /\ camera'.longitude = location.longitude
              /\ lastUpdate' = [at |-> now', rangeRunning |-> range.continueAnimation,
                                locationRunning |-> location.continueAnimation]
              /\ redrawn' = now'
              /\ \A j \in Chains : j # k => timer'[j] = timer[j]
              /\ IF running
                 THEN /\ timer'[k] = now' + animationFrequency
                      /\ invoked' = invoked
                 ELSE /\ timer'[k] = 0
                      /\ \A j \in Chains :
                            invoked'[j] = invoked[j]
                                + (IF HasCallback /\ j = completionCallback.call THEN 1 ELSE 0)]_vars

\* A run of two ticks: the first went on, the altitude done and the pan running,
\* and the second, which found both done, requested its redraw, scheduled nothing
\* and invoked the callback.
C15_Witness ==
    /\ calls = 1
    /\ ~cancelled
    /\ passed[1] = "f"
    /\ lastUpdate = [at |-> startTime + 2 * animationFrequency,
                     rangeRunning |-> FALSE, locationRunning |-> FALSE]
    /\ now = lastUpdate.at
    /\ redrawn = now
    /\ camera = targetPosition
    /\ camera # startPosition
    /\ timer[1] = 0
    /\ invoked[1] = 1

----------------------------------------------------------------------------
\* The run is over: its last tick found both sub-motions done.
RunComplete ==
    /\ lastUpdate.at # 0
    /\ ~lastUpdate.rangeRunning
    /\ ~lastUpdate.locationRunning

\* C16: a tick that finds maxAltitudeReachedTime unset reports the altitude
\* sub-motion running and schedules a further tick, also when it sets
\* maxAltitudeReachedTime, which it does only if the camera's altitude is within
\* 1 metre of min(start.altitude + rangeVelocity x elapsed, maxAltitude), the
\* altitude the tick writes, elapsed being taken when the tick first reads the
\* clock; so a run
\* with maxAltitude > start.altitude completes only on a tick after the one that
\* set maxAltitudeReachedTime.
C16_RisingRuns ==
    /\ [][(TickStep(1) /\ maxAltitudeReachedTime = 0) =>
             \E gap2 \in Gaps, gap3 \in Gaps :
             LET elapsed   == now' - gap3 - gap2 - startTime
                 nextRange == RMin(RAdd(startPosition.altitude,
                                        RMul(rangeVelocity, R(elapsed))),
                                   maxAltitude)
             IN  /\ now <= now' - gap3 - gap2
                 /\ camera'.altitude = nextRange
                 /\ lastUpdate'.rangeRunning
                 /\ timer'[1] # 0
                 /\ invoked' = invoked
                 /\ maxAltitudeReachedTime' \in {0, now' - gap3}
                 /\ maxAltitudeReachedTime' # 0 =>
                        RLt(RAbs(RSub(camera.altitude, nextRange)), R(1))]_vars
    /\ []((RunComplete /\ RLt(startPosition.altitude, maxAltitude)) =>
             /\ startTime < maxAltitudeReachedTime
             /\ maxAltitudeReachedTime < lastUpdate.at)

\* The tick that ends the rising phase of a long move at the top: the camera was
\* at maxAltitude already, the tick reports running and a further tick is due.
C16_Witness ==
    /\ calls = 1
    /\ RLt(startPosition.altitude, maxAltitude)
    /\ camera.altitude = maxAltitude
    /\ maxAltitudeReachedTime = now
    /\ lastUpdate.at = now
    /\ lastUpdate.rangeRunning
    /\ timer[1] = now + animationFrequency
    /\ invoked[1] = 0

----------------------------------------------------------------------------
\* C17: the pan step of a tick is min(panVelocity x elapsed - distanceTravelled,
\* distanceRemaining): the tick moves the camera by no more than the distance
\* that remained to the target, and by nothing when the budget panVelocity x
\* elapsed does not exceed the distance already travelled.
C17_PanStep ==
    [][TickStep(1) =>
          LET elapsedTime       == now' - startTime
              distanceTravelled == greatCircleDistance(startPosition, camera)
              distanceRemaining == greatCircleDistance(camera, targetPosition)
              distanceForNow    == RMul(panVelocity, R(elapsedTime))
          IN  /\ RLe(greatCircleDistance(camera, camera'), distanceRemaining)
              /\ RLe(distanceForNow, distanceTravelled) =>
                     camera'.longitude = camera.longitude]_vars

----------------------------------------------------------------------------
\* C18: a tick reports the pan done exactly when its step is below the angle of 1
\* metre of arc (1 / equatorialRadius) or more
\* than 4000 ms have passed since the run started; the cap is on the pan alone: a
\* tick that reports the altitude sub-motion running schedules a further tick,
\* however long the run has lasted.
C18_PanDone ==
    [][TickStep(1) =>
          LET elapsedTime  == now' - startTime
              nextDistance == nextDistanceOf(Position(camera.longitude, camera.altitude), now')
          IN  /\ lastUpdate'.at = now'
              /\ ~lastUpdate'.locationRunning
                    <=> (RLt(nextDistance, OneMetre) \/ elapsedTime > MaxPanTime)
              /\ lastUpdate'.rangeRunning => timer'[1] = now' + animationFrequency]_vars

\* The first tick of a run fires late, more than 4000 ms after the start: it moves
\* the camera by more than 1 metre, reports the pan done and the altitude running,
\* and a further tick is due.
C18_Witness ==
    /\ calls = 1
    /\ lastUpdate.at = startTime + animationFrequency + LateBy
    /\ now = lastUpdate.at
    /\ now - startTime > MaxPanTime
    /\ RLt(OneMetre, greatCircleDistance(startPosition, camera))
    /\ ~lastUpdate.locationRunning
    /\ firstDone.location = now
    /\ lastUpdate.rangeRunning
    /\ timer[1] = now + animationFrequency
    /\ invoked[1] = 0

----------------------------------------------------------------------------
\* C19: a goTo to the position the camera is at schedules no tick, yet stores its
\* callback, clears the cancelled flag and replaces targetPosition, startPosition,
\* startTime, maxAltitude and maxAltitudeReachedTime, and leaves panVelocity and
\* rangeVelocity as the previous run set them; a tick pending from an earlier run
\* stays pending, and when it fires it updates the camera from the overwritten
\* fields and those velocities.
C19_DegenerateOverwrites ==
    /\ [][(GoToStep /\ startPosition' = targetPosition') =>
             /\ timer' = timer
             /\ completionCallback' = [fn |-> passed'[calls'], call |-> calls']
             /\ cancelled' = FALSE
             /\ startPosition' = Position(camera.longitude, camera.altitude)
             /\ startTime' = now
             /\ maxAltitude' = camera.altitude
             /\ now <= maxAltitudeReachedTime'
             /\ maxAltitudeReachedTime' = now'
             /\ panVelocity' = panVelocity
             /\ rangeVelocity' = rangeVelocity]_vars
    /\ [][\A k \in Chains :
             (TickStep(k) /\ k < calls /\ timer[calls] = 0 /\ ~cancelled) =>
                 \E gap2 \in Gaps, gap3 \in Gaps :
                     /\ now <= now' - gap3 - gap2
                     /\ camera'.altitude =
                            updateRange(camera, now' - gap3 - gap2, now' - gap3).altitude
                     /\ camera'.longitude =
                            updateLocation(Position(camera.longitude, camera.altitude), now').longitude]_vars

\* The second goTo, to where the camera is, came while the first run had its first
\* tick pending and had been cancelled: the fields are the second call's, the
\* velocities the first run's, the tick is still pending.
C19_Witness ==
    /\ calls = 2
    /\ timer[1] # 0
    /\ timer[2] = 0
    /\ 1 \in cancelledRuns
    /\ ~cancelled
    /\ completionCallback = [fn |-> "g", call |-> 2]
    /\ startPosition = targetPosition
    /\ startPosition = camera
    /\ requested.longitude = R(0)
    /\ startTime = now
    /\ maxAltitudeReachedTime = now
    /\ panVelocity # R(0)
    /\ lastUpdate = NoUpdate

----------------------------------------------------------------------------
Pending == {k \in Chains : timer[k] # 0}

\* C20: when goTo is called only while no tick is pending, at most one tick is
\* pending at any time; the tick that invokes the completion callback, or ends
\* the run without one, leaves no tick pending; each callback is invoked at most
\* once; and the camera is not written while no tick is pending.
C20_OneTick ==
    /\ [](Cardinality(Pending) <= 1)
    /\ [](\A k \in Chains : invoked[k] <= 1)
    /\ [][\A k \in Chains :
             (TickStep(k) /\ (invoked' # invoked \/ timer'[k] = 0)) => Pending' = {}]_vars
    /\ [][Pending = {} => camera' = camera]_vars

\* Two runs, one after the other, each ended by the tick that invoked its callback;
\* no tick is pending and the camera is where the second run put it.
C20_Witness ==
    /\ calls = 2
    /\ passed = <<"f", "g">>
    /\ invoked = <<1, 1>>
    /\ cancelledRuns = {}
    /\ Pending = {}
    /\ RunComplete
    /\ startPosition.longitude # R(0)
    /\ camera # startPosition
    /\ camera = targetPosition

====
